---- MODULE Spec2Model ----
(***************************************************************************)
(* Model of the camera frame pipeline (camera_worker.py), the recognition  *)
(* engine's text de-duplication (code_recognition.py) and the persistent   *)
(* de-duplicating code store (code_storage.py).                            *)
(*                                                                         *)
(* Strings that the code parses (the engine's "TYPE:data" texts, joined    *)
(* with ", " and split again by the worker) are sequences of one-character *)
(* strings, so that join/split are computed and not assumed.               *)
(***************************************************************************)
EXTENDS Integers, Sequences, FiniteSets, TLC

(***************************************************************************)
(* Bounds of the model.                                                    *)
(***************************************************************************)
\* largest max_cache_size a store of SpecStore is constructed with
MaxCacheBound == 2
\* largest number of frames the device delivers successfully normalised
MaxFrames == 31
\* largest number of times the pipeline thread is started
MaxRuns == 2
\* number of worker-side clock advances (seconds) the model follows
MaxClockSteps == 2

(***************************************************************************)
(* Program constants.                                                      *)
(***************************************************************************)
\* queue.Queue(maxsize=2)
QueueMaxSize == 2
\* self.recognition_interval = 10
recognition_interval == 10
\* self.display_interval = 1
display_interval == 1
\* self.fps_update_interval = 30
fps_update_interval == 30
\* CodeStorage(max_cache_size=10000): the store the pipeline constructs
DefaultMaxCacheSize == 10000
\* CodeStorage(max_file_size_mb=100)
DefaultMaxFileSizeMb == 100
\* recognition_queue.get(timeout=0.5), in half seconds
DequeueTimeoutTicks == 1
\* recognition_thread.join(timeout=2.0), in half seconds
JoinTimeoutTicks == 4
\* self.worker.wait(5000) in disconnect_camera, in half seconds
WaitTimeoutTicks == 10
\* worker.wait(1000) of pause_grabbing, in half seconds
PauseWaitTicks == 2

(***************************************************************************)
(* Strings.                                                                *)
(***************************************************************************)
None == <<"<None>">>

RECURSIVE IndexOf(_, _, _)
\* first position >= i of character c in s, 0 when absent (str.find)
IndexOf(s, c, i) ==
    IF i > Len(s) THEN 0
    ELSE IF s[i] = c THEN i
    ELSE IndexOf(s, c, i + 1)

Contains(s, c) == IndexOf(s, c, 1) # 0

RECURSIVE Split(_, _)
\* str.split(sep) for a one-character separator: always at least one piece
Split(s, sep) ==
    LET i == IndexOf(s, sep, 1)
    IN  IF i = 0 THEN <<s>>
        ELSE <<SubSeq(s, 1, i - 1)>> \o Split(SubSeq(s, i + 1, Len(s)), sep)

\* str.split(sep, 1): at most one split, at the first separator
Split1(s, sep) ==
    LET i == IndexOf(s, sep, 1)
    IN  IF i = 0 THEN <<s>>
        ELSE <<SubSeq(s, 1, i - 1), SubSeq(s, i + 1, Len(s))>>

RECURSIVE Join(_, _)
\* sep.join(texts)
Join(texts, sep) ==
    IF Len(texts) = 0 THEN <<>>
    ELSE IF Len(texts) = 1 THEN texts[1]
    ELSE texts[1] \o sep \o Join(Tail(texts), sep)

(***************************************************************************)
(* code_storage.py : CodeStorage                                           *)
(***************************************************************************)
\* the dictionary written for one code
Entry(text, code_type, ts) ==
    [info |-> text, type |-> code_type, timestamp |-> ts]

\* the keys of the OrderedDict, in order
Keys(cache) == [i \in 1..Len(cache) |-> cache[i].info]

KeySet(cache) == {cache[i].info : i \in 1..Len(cache)}

\* OrderedDict.__setitem__: an existing key keeps its place and gets the
\* new value, a new key goes to the end
DictSet(cache, entry) ==
    IF entry.info \in KeySet(cache)
    THEN [i \in 1..Len(cache) |->
            IF cache[i].info = entry.info THEN entry ELSE cache[i]]
    ELSE Append(cache, entry)

RECURSIVE DictFill(_, _)
\* for entry in codes_list: self.codes_cache[entry['info']] = entry
DictFill(cache, codes_list) ==
    IF Len(codes_list) = 0 THEN cache
    ELSE DictFill(DictSet(cache, Head(codes_list)), Tail(codes_list))

RECURSIVE InsertDesc(_, _)
\* place e after every element whose timestamp is >= its own
InsertDesc(sorted, e) ==
    IF Len(sorted) = 0 THEN <<e>>
    ELSE IF Head(sorted).timestamp >= e.timestamp
         THEN <<Head(sorted)>> \o InsertDesc(Tail(sorted), e)
         ELSE <<e>> \o sorted

RECURSIVE SortDesc(_)
\* codes_list.sort(key=timestamp, reverse=True): stable, newest first
SortDesc(codes_list) ==
    IF Len(codes_list) = 0 THEN <<>>
    ELSE InsertDesc(SortDesc(SubSeq(codes_list, 1, Len(codes_list) - 1)),
                    codes_list[Len(codes_list)])

\* codes_list[:n]
Take(codes_list, n) ==
    SubSeq(codes_list, 1, IF n < Len(codes_list) THEN n ELSE Len(codes_list))

\* the backing file: absent, unreadable as JSON, or a JSON document
NoFile == [kind |-> "absent", codes |-> <<>>]
CorruptFile == [kind |-> "corrupt", codes |-> <<>>]
JsonFile(codes) == [kind |-> "json", codes |-> codes]

\* os.path.getsize in megabytes: one unit for the document, one per entry
FileSizeMb(f) == Len(f.codes) + 1

\* a partial load that takes the first entries of the file as they come
LoadPartial_Unsorted(f, max_cache_size) ==
    IF f.kind = "json"
    THEN DictFill(<<>>, Take(f.codes, max_cache_size))
    ELSE <<>>

\* _load_partial: newest max_cache_size entries of the file
LoadPartial(f, max_cache_size) ==
    IF f.kind = "json"
    THEN DictFill(<<>>, Take(SortDesc(f.codes), max_cache_size))
    ELSE <<>>

\* a load that sorts every file it reads, newest entry first
LoadFromFile_AlwaysSorts(f, max_cache_size, max_file_size_mb) ==
    IF f.kind # "json" THEN <<>>
    ELSE DictFill(<<>>, Take(SortDesc(f.codes), max_cache_size))

\* a load that takes every entry of a file under the size threshold
LoadFromFile_NoTruncate(f, max_cache_size, max_file_size_mb) ==
    IF f.kind = "absent" THEN <<>>
    ELSE IF FileSizeMb(f) > max_file_size_mb
         THEN LoadPartial(f, max_cache_size)
    ELSE IF f.kind = "corrupt" THEN <<>>
    ELSE DictFill(<<>>, f.codes)

\* _load_from_file: the cache after construction
LoadFromFile(f, max_cache_size, max_file_size_mb) ==
    IF f.kind = "absent" THEN <<>>
    ELSE IF FileSizeMb(f) > max_file_size_mb
         THEN LoadPartial(f, max_cache_size)
    ELSE IF f.kind = "corrupt" THEN <<>>
    ELSE IF Len(f.codes) > max_cache_size
         THEN DictFill(<<>>, Take(SortDesc(f.codes), max_cache_size))
    ELSE DictFill(<<>>, f.codes)

\* _save_to_file: the file after the write; a failure to open leaves the
\* file as it was, a failure after the truncating open leaves it unreadable
SaveToFile(cache, f, wr) ==
    IF wr = "ok" THEN JsonFile(cache)
    ELSE IF wr = "open_failed" THEN f
    ELSE CorruptFile

WriteOutcomes == {"ok", "open_failed", "write_failed"}

\* eviction only once the cache is over its capacity
InsertNew_OffByOne(cache, max_cache_size, entry) ==
    LET kept == IF Len(cache) > max_cache_size THEN Tail(cache) ELSE cache
    IN  Append(kept, entry)

\* the cache after add_code's eviction and insertion of a new text
InsertNew(cache, max_cache_size, entry) ==
    LET kept == IF Len(cache) >= max_cache_size THEN Tail(cache) ELSE cache
    IN  Append(kept, entry)

\* add_code without the membership test
AddCode_NoDedup(cache, f, max_cache_size, text, code_type, ts, wr) ==
    LET after == InsertNew(cache, max_cache_size, Entry(text, code_type, ts))
    IN  [is_new |-> TRUE, cache |-> after, file |-> SaveToFile(after, f, wr)]

\* add_code that forgets an entry it could not write to the file
AddCode_DropsUnsavedEntry(cache, f, max_cache_size, text, code_type, ts, wr) ==
    LET is_new == text \notin KeySet(cache)
        after  == InsertNew(cache, max_cache_size, Entry(text, code_type, ts))
    IN  IF is_new
        THEN [is_new |-> TRUE, cache |-> IF wr = "ok" THEN after ELSE cache,
              file |-> SaveToFile(after, f, wr)]
        ELSE [is_new |-> FALSE, cache |-> cache, file |-> f]

\* add_code that takes the kind of a repeated text over
AddCode_UpdatesKind(cache, f, max_cache_size, text, code_type, ts, wr) ==
    LET is_new == text \notin KeySet(cache)
        after  == InsertNew(cache, max_cache_size, Entry(text, code_type, ts))
        again  == DictSet(cache, Entry(text, code_type, ts))
    IN  IF is_new
        THEN [is_new |-> TRUE, cache |-> after, file |-> SaveToFile(after, f, wr)]
        ELSE [is_new |-> FALSE, cache |-> again, file |-> SaveToFile(again, f, wr)]

\* add_code that writes the file before it inserts the entry
AddCode_SavesBeforeInsert(cache, f, max_cache_size, text, code_type, ts, wr) ==
    LET is_new == text \notin KeySet(cache)
        after  == InsertNew(cache, max_cache_size, Entry(text, code_type, ts))
    IN  IF is_new
        THEN [is_new |-> TRUE, cache |-> after, file |-> SaveToFile(cache, f, wr)]
        ELSE [is_new |-> FALSE, cache |-> cache, file |-> f]

\* add_code under the lock: the returned flag, the cache and the file
AddCode(cache, f, max_cache_size, text, code_type, ts, wr) ==
    LET is_new == text \notin KeySet(cache)
        after  == InsertNew(cache, max_cache_size, Entry(text, code_type, ts))
    IN  IF is_new
        THEN [is_new |-> TRUE, cache |-> after, file |-> SaveToFile(after, f, wr)]
        ELSE [is_new |-> FALSE, cache |-> cache, file |-> f]

(***************************************************************************)
(* State.                                                                  *)
(***************************************************************************)
VARIABLES
    \* CodeStorage
    codes_cache,        \* self.codes_cache: the OrderedDict, as its values in order
    storage_file,       \* the JSON file at self.storage_path
    max_cache_size,     \* self.max_cache_size
    max_file_size_mb,   \* self.max_file_size_mb
    now,                \* datetime.now(), in seconds
    \* CameraWorker
    running,            \* self.running
    recognition_running,\* self.recognition_running
    recognition_queue,  \* self.recognition_queue: the queued images, oldest first
    recognition_thread, \* self.recognition_thread: 0 for None, else the worker's number
    frame_count,        \* self.frame_count
    display_count,      \* self.display_count
    fps_frame_count,    \* self.fps_frame_count
    last_result,        \* self.recognizer.last_result
    \* threads
    tpc,                \* where the pipeline thread (QThread.run) stands
    runs,               \* how many times the pipeline thread was started
    wpc,                \* where each recognition worker thread stands
    wimg,               \* the image each worker holds (0: none)
    getTimer,           \* half seconds each worker has waited in queue.get
    joinTimer,          \* half seconds the pipeline thread has waited in join
    \* the device behind the SDK handle
    grabbing,           \* IMV_IsGrabbing()
    attached,           \* a frame callback is attached
    \* signals emitted so far
    image_emits, error_emits, result_emits, detection_emits, fps_emits,
    \* observations kept for the properties
    h_calls,            \* the last two add_code calls: text, kind, returned flag, was stored before
    h_first,            \* the texts of the add_code calls since construction, while few
    h_more,             \* h_first is not followed: the store was not constructed empty, or
                        \* the calls were too many or repeated a text
    h_fresh,            \* no add_code since construction
    h_frame,            \* what the last frame callback did
    h_failRun,          \* consecutive frames that failed normalisation, up to now (5: 5 or more)
    h_badShown,         \* 1 when one of those frames led to a display event
    h_shown,            \* the frames of the last two display events, in the order emitted
    h_proc,             \* what the last processed image led to
    h_run,              \* what the current run of the pipeline thread did
    h_c7,               \* a stop() that found the worker waiting on the empty queue
    h_signalled,        \* the workers that were alive when recognition_running was cleared
    \* threads inside CodeStorage
    lock,               \* self.lock: 0 when free, else the caller that holds it
    callers,            \* each caller's position in add_code or get_all_codes
    h_rets,             \* per text, the add_code calls returned and those returning True
    \* CameraControlApp
    apc,                \* disconnect_camera: "none", "waiting" in worker.wait, "gone";
                        \* pause_grabbing: "pausing" in worker.wait, "paused";
                        \* resume_grabbing: "resumed"
    waitTimer,          \* the time spent in worker.wait, in half seconds
    \* CameraParameterWindow
    is_grabbing         \* self.is_grabbing

storeVars == <<codes_cache, storage_file, max_cache_size, max_file_size_mb, now>>
lockVars == <<lock, callers, h_rets>>
storeHist == <<h_calls, h_first, h_more, h_fresh, lockVars>>
flagVars  == <<running, recognition_running>>
frameVars == <<frame_count, display_count, fps_frame_count, image_emits, fps_emits,
               h_frame, h_failRun, h_badShown, h_shown>>
threadVars == <<tpc, runs, joinTimer, h_run>>
stopHist == h_c7
appVars == <<apc, waitTimer, is_grabbing>>
workerVars == <<wpc, wimg, getTimer, recognition_thread>>
recogVars == <<last_result, result_emits, detection_emits, h_proc>>
deviceVars == <<grabbing, attached>>

vars == <<storeVars, storeHist, flagVars, recognition_queue, frameVars, threadVars,
          workerVars, recogVars, deviceVars, error_emits, stopHist, appVars, h_signalled>>

pipeVars == <<flagVars, recognition_queue, frameVars, threadVars, workerVars,
              recogVars, deviceVars, error_emits, stopHist, appVars, h_signalled>>

(***************************************************************************)
(* The store on its own: construction from a file, add_code, get_all_codes *)
(* and a restart of the process on the same file.                          *)
(***************************************************************************)
\* the text of i characters
TextOf(i) == [j \in 1..i |-> "x"]
StoreTexts == {TextOf(i) : i \in 1..(MaxCacheBound + 1)}
QR == <<"Q", "R">>
EAN13 == <<"E", "A", "N", "1", "3">>
Unknown == <<"U", "n", "k", "n", "o", "w", "n">>
Kinds == {QR, EAN13}
\* timestamps found in a file written earlier
FileStamps == 1..(MaxCacheBound + 1)
StartOfSession == MaxCacheBound + 1
EndOfClock == StartOfSession + MaxClockSteps

FileEntries == {Entry(t, QR, ts) : t \in StoreTexts, ts \in FileStamps}

RECURSIVE SeqsUpTo(_, _)
\* the sequences over S of length at most n
SeqsUpTo(S, n) ==
    IF n = 0 THEN {<<>>}
    ELSE LET shorter == SeqsUpTo(S, n - 1)
         IN  shorter \cup {Append(s, e) : s \in {x \in shorter : Len(x) = n - 1}, e \in S}

Files == {NoFile, CorruptFile}
         \cup {JsonFile(c) : c \in SeqsUpTo(FileEntries, MaxCacheBound + 1)}

\* the record of one add_code call
CallRecord(text, code_type, ret, had, wr) ==
    [text |-> text, code_type |-> code_type, ret |-> ret, had |-> had, wr |-> wr]

\* the elements of a sequence are pairwise distinct
Distinct(q) == \A i, j \in 1..Len(q) : i # j => q[i] # q[j]

\* the observations after an add_code call (wr is the outcome of its file
\* write, "none" when it wrote nothing); h_first follows the calls made
\* on a store constructed empty while they are max_cache_size + 1 at most
\* and their texts differ
NoteCall(text, code_type, ret, had, wr) ==
    /\ h_calls' = (IF Len(h_calls) = 2 THEN Tail(h_calls) ELSE h_calls)
                    \o <<CallRecord(text, code_type, ret, had, wr)>>
    /\ IF ~h_more /\ Len(h_first) <= max_cache_size /\ max_cache_size <= MaxCacheBound
          /\ Distinct(Append(h_first, text))
       THEN h_first' = Append(h_first, text) /\ h_more' = FALSE
       ELSE h_first' = <<>> /\ h_more' = TRUE
    /\ h_fresh' = FALSE
    /\ UNCHANGED lockVars

\* CodeStorage.add_code(text, code_type), dt seconds after the last call
AddCodeCall(text, code_type, wr, dt) ==
    LET r == AddCode(codes_cache, storage_file, max_cache_size, text, code_type, now + dt, wr)
    IN  /\ now + dt <= EndOfClock
        /\ codes_cache' = r.cache
        /\ storage_file' = r.file
        /\ now' = now + dt
        /\ NoteCall(text, code_type, r.is_new, text \in KeySet(codes_cache),
                    IF r.is_new THEN wr ELSE "none")
        /\ UNCHANGED <<max_cache_size, max_file_size_mb>>

\* CodeStorage.__init__ on the file as it is
Construct(f, cap, mb) ==
    /\ codes_cache' = LoadFromFile(f, cap, mb)
    /\ storage_file' = f
    /\ max_cache_size' = cap
    /\ max_file_size_mb' = mb
    /\ h_calls' = <<>>
    /\ h_first' = <<>>
    /\ h_more' = (LoadFromFile(f, cap, mb) # <<>>)
    /\ h_fresh' = TRUE
    /\ UNCHANGED lockVars

\* the process ends and a new store is constructed on the same path
Reopen ==
    /\ ~h_fresh
    /\ Construct(storage_file, max_cache_size, max_file_size_mb)
    /\ UNCHANGED <<now, pipeVars>>

\* the write outcomes followed for a store constructed on any file
StoreWriteOutcomes == {"ok", "write_failed"}

StoreAdd ==
    \E t \in StoreTexts, k \in Kinds, wr \in StoreWriteOutcomes, dt \in {0, 1} :
        /\ AddCodeCall(t, k, wr, dt)
        /\ UNCHANGED pipeVars

(***************************************************************************)
(* code_storage.py : add_code and get_all_codes statement by statement,    *)
(* called from several threads.                                            *)
(***************************************************************************)
\* the threads that call into the store
Callers == 1..2
\* largest number of store calls followed
MaxStoreCalls == 4

\* a caller is outside the store ("idle") or at a statement of a call
CallerAt(pc, op, text, code_type, is_new) ==
    [pc |-> pc, op |-> op, text |-> text, code_type |-> code_type, is_new |-> is_new]
IdleCaller == CallerAt("idle", "none", <<>>, <<>>, FALSE)

\* the calls begun so far
CallsBegun ==
    LET RECURSIVE Sum(_)
        Sum(S) == IF S = {} THEN 0
                  ELSE LET t == CHOOSE x \in S : TRUE
                       IN  h_rets[t].done + Sum(S \ {t})
    IN  Sum(StoreTexts) + Cardinality({c \in Callers : callers[c].op = "add"})

\* a with statement that enters without waiting for the lock
Acquire_NoWait(c) == lock' = c

\* with self.lock: the caller enters when the lock is free
Acquire(c) == lock = 0 /\ lock' = c

\* add_code(text, code_type): with self.lock
AddLock(c, text, code_type) ==
    /\ callers[c].pc = "idle"
    /\ CallsBegun < MaxStoreCalls
    /\ Acquire(c)
    /\ callers' = [callers EXCEPT ![c] = CallerAt("test", "add", text, code_type, FALSE)]
    /\ UNCHANGED <<storeVars, h_calls, h_first, h_more, h_fresh, h_rets, pipeVars>>

\* is_new = text not in self.codes_cache
AddTest(c) ==
    /\ callers[c].pc = "test"
    /\ LET is_new == callers[c].text \notin KeySet(codes_cache)
       IN  callers' = [callers EXCEPT ![c].is_new = is_new,
                                      ![c].pc = IF is_new THEN "insert" ELSE "unlock"]
    /\ UNCHANGED <<storeVars, h_calls, h_first, h_more, h_fresh, lock, h_rets, pipeVars>>

\* the eviction from a full cache and self.codes_cache[text] = entry
AddInsert(c) ==
    /\ callers[c].pc = "insert"
    /\ LET kept  == IF Len(codes_cache) >= max_cache_size THEN Tail(codes_cache)
                    ELSE codes_cache
           entry == Entry(callers[c].text, callers[c].code_type, now)
       IN  codes_cache' = DictSet(kept, entry)
    /\ callers' = [callers EXCEPT ![c].pc = "save"]
    /\ UNCHANGED <<storage_file, max_cache_size, max_file_size_mb, now, h_calls, h_first,
                   h_more, h_fresh, lock, h_rets, pipeVars>>

\* self._save_to_file()
AddSave(c, wr) ==
    /\ callers[c].pc = "save"
    /\ storage_file' = SaveToFile(codes_cache, storage_file, wr)
    /\ callers' = [callers EXCEPT ![c].pc = "unlock"]
    /\ UNCHANGED <<codes_cache, max_cache_size, max_file_size_mb, now, h_calls, h_first,
                   h_more, h_fresh, lock, h_rets, pipeVars>>

\* get_all_codes(): with self.lock
GetAllLock(c) ==
    /\ callers[c].pc = "idle"
    /\ Acquire(c)
    /\ callers' = [callers EXCEPT ![c] = CallerAt("read", "get", <<>>, <<>>, FALSE)]
    /\ UNCHANGED <<storeVars, h_calls, h_first, h_more, h_fresh, h_rets, pipeVars>>

\* return list(self.codes_cache.values())
GetAllRead(c) ==
    /\ callers[c].pc = "read"
    /\ callers' = [callers EXCEPT ![c].pc = "unlock"]
    /\ UNCHANGED <<storeVars, h_calls, h_first, h_more, h_fresh, lock, h_rets, pipeVars>>

\* the with block ends: the lock is released and the call returns
Unlock(c) ==
    /\ callers[c].pc = "unlock"
    /\ lock' = 0
    /\ h_rets' = IF callers[c].op = "add"
                 THEN [h_rets EXCEPT ![callers[c].text] =
                        [done |-> @.done + 1,
                         trues |-> IF callers[c].is_new THEN @.trues + 1 ELSE @.trues]]
                 ELSE h_rets
    /\ callers' = [callers EXCEPT ![c] = IdleCaller]
    /\ UNCHANGED <<storeVars, h_calls, h_first, h_more, h_fresh, pipeVars>>

(***************************************************************************)
(* camera_worker.py : the frame callback                                   *)
(***************************************************************************)
\* a frame as the SDK delivers it: its pixel format, whether its size and
\* buffer are consistent with its header (else the conversion raises), and
\* what IMV_PixelConvert returns for it
Frame(fmt, ok, ret) == [pixelFormat |-> fmt, wellFormed |-> ok, convert_ret |-> ret]
NullFrame == Frame("null", TRUE, 0)
GoodFrames == {Frame("Mono8", TRUE, 0), Frame("BGR8", TRUE, 0), Frame("BayerRG8", TRUE, 0)}
BadFrames == {Frame("BayerRG8", TRUE, -1), Frame("Mono8", FALSE, 0)}
IMV_OK == 0

\* a conversion that does not look at what IMV_PixelConvert returns
ConvertFrameToRgb_IgnoresStatus(frame_data) ==
    IF ~frame_data.wellFormed
    THEN [ok |-> FALSE, channels |-> 0, buffer |-> "none", released |-> 0]
    ELSE [ok |-> TRUE, channels |-> 3, buffer |-> "own", released |-> 1]

\* _convert_frame_to_rgb: the image (ok, with its channel count and the
\* buffer its pixels live in) and how often IMV_ReleaseFrame was called
ConvertFrameToRgb(frame_data) ==
    IF ~frame_data.wellFormed
    THEN [ok |-> FALSE, channels |-> 0, buffer |-> "none", released |-> 0]
    ELSE IF frame_data.pixelFormat = "Mono8"
    THEN [ok |-> TRUE, channels |-> 3, buffer |-> "own", released |-> 1]
    ELSE IF frame_data.pixelFormat = "BGR8"
    THEN [ok |-> TRUE, channels |-> 3, buffer |-> "device", released |-> 1]
    ELSE IF frame_data.convert_ret # IMV_OK
    THEN [ok |-> FALSE, channels |-> 0, buffer |-> "none", released |-> 0]
    ELSE [ok |-> TRUE, channels |-> 3, buffer |-> "own", released |-> 1]

\* _convert_to_qimage: a QImage unless unpacking the shape raises
ConvertToQImage(rgb_image) == rgb_image.channels = 3

\* a put that makes room by dropping the oldest queued image
PutNowait_DropsOldest(queue, image) ==
    IF Len(queue) < QueueMaxSize
    THEN [full |-> FALSE, queue |-> Append(queue, image)]
    ELSE [full |-> FALSE, queue |-> Append(Tail(queue), image)]

\* a put into a queue without a maximum size
PutNowait_Unbounded(queue, image) == [full |-> FALSE, queue |-> Append(queue, image)]

\* put_nowait: the queue afterwards; a full queue raises queue.Full
PutNowait(queue, image) ==
    IF Len(queue) < QueueMaxSize
    THEN [full |-> FALSE, queue |-> Append(queue, image)]
    ELSE [full |-> TRUE, queue |-> queue]

\* the SDK cannot convert the frame: its header and buffer disagree, or
\* IMV_PixelConvert returns an error for its format
FailsNormalization(frame) ==
    \/ ~frame.wellFormed
    \/ frame.pixelFormat \notin {"Mono8", "BGR8"} /\ frame.convert_ret # IMV_OK

FrameNote(handed, released, bad, ok, displayed, enq, fails, badShown, buffer) ==
    [handed |-> handed, released |-> released, bad |-> bad, ok |-> ok,
     displayed |-> displayed, enq |-> enq, failsBefore |-> fails, badShown |-> badShown,
     buffer |-> buffer]
NoFrame == FrameNote(FALSE, 0, FALSE, FALSE, FALSE, "none", 0, 0, "none")

\* a boundary test that is one frame early
RecognitionDue_OffByOne(count) == (count + 1) % recognition_interval = 0

\* if self.frame_count % self.recognition_interval == 0
RecognitionDue(count) == count % recognition_interval = 0

\* an emit that puts the newest image in front of the ones waiting
EmitImage_Prepends(events, image) == <<image>> \o events

\* image_signal.emit(qimage): the display events in the order emitted
EmitImage(events, image) == Append(events, image)

\* the last two of the display events
LastTwo(events) ==
    IF Len(events) <= 2 THEN events ELSE SubSeq(events, Len(events) - 1, Len(events))

\* a failed conversion that is reported with error_signal
LogConversionError_EmitsSignal(errors) == errors + 1

\* a failed conversion is logged and the frame skipped: the number of
\* error_signal events afterwards
LogConversionError(errors) == errors

\* _frame_callback(pFrame, pUser), called on the SDK's thread; cap bounds
\* the frames followed
FrameCallback(pFrame, cap) ==
    LET rgb_image == ConvertFrameToRgb(pFrame)
        shown == /\ (display_count + 1) % display_interval = 0
                 /\ ConvertToQImage(rgb_image)
        due   == RecognitionDue(frame_count + 1)
        put   == PutNowait(recognition_queue, frame_count + 1)
        fps   == fps_frame_count + 1
        bad   == FailsNormalization(pFrame)
        emitted == rgb_image.ok /\ shown
    IN  /\ grabbing /\ attached
        /\ IF pFrame = NullFrame
           THEN /\ h_frame' = [NoFrame EXCEPT !.failsBefore = h_failRun,
                                              !.badShown = h_badShown]
                /\ UNCHANGED <<frame_count, display_count, fps_frame_count, image_emits,
                               fps_emits, h_failRun, h_badShown, h_shown,
                               recognition_queue, error_emits>>
           ELSE /\ IF ~rgb_image.ok
                   THEN /\ error_emits' = LogConversionError(error_emits)
                        /\ UNCHANGED <<frame_count, display_count, fps_frame_count,
                                       image_emits, fps_emits, h_shown, recognition_queue>>
                   ELSE /\ frame_count < cap
                        /\ error_emits' = error_emits
                        /\ h_shown' = IF shown
                                      THEN LastTwo(EmitImage(h_shown, frame_count + 1))
                                      ELSE h_shown
                        /\ frame_count' = frame_count + 1
                        /\ display_count' = display_count + 1
                        /\ image_emits' = IF shown THEN image_emits + 1 ELSE image_emits
                        /\ recognition_queue' = IF due THEN put.queue
                                                ELSE recognition_queue
                        /\ IF fps >= fps_update_interval
                           THEN fps_frame_count' = 0 /\ fps_emits' = fps_emits + 1
                           ELSE fps_frame_count' = fps /\ fps_emits' = fps_emits
                /\ h_frame' = FrameNote(TRUE, rgb_image.released, bad, rgb_image.ok,
                                        emitted,
                                        IF ~rgb_image.ok \/ ~due THEN "none"
                                        ELSE IF put.full THEN "full" ELSE "queued",
                                        h_failRun, h_badShown, rgb_image.buffer)
                /\ IF bad
                   THEN /\ h_failRun' = IF h_failRun < 5 THEN h_failRun + 1 ELSE 5
                        /\ h_badShown' = IF emitted /\ h_badShown = 0 THEN 1
                                         ELSE h_badShown
                   ELSE h_failRun' = 0 /\ h_badShown' = 0
        /\ UNCHANGED <<h_c7, appVars, h_signalled, storeVars, storeHist, flagVars, threadVars, workerVars,
                       recogVars, deviceVars>>

(***************************************************************************)
(* code_recognition.py : CodeRecognizer.detect_codes_with_positions        *)
(***************************************************************************)
\* what a detector appends to texts for one code: f"{type}:{data}"
CodeText(code_type, data) == code_type \o <<":">> \o data

\* a detector that returns the combined text whenever something is decoded
DetectCodesWithPositions_NoDedup(last, texts) ==
    LET combined_text == Join(texts, <<",", " ">>)
    IN  IF Len(texts) = 0
        THEN [decoded_text |-> None, detections |-> <<>>, last_result |-> last]
        ELSE [decoded_text |-> combined_text, detections |-> texts,
              last_result |-> combined_text]

\* the (decoded_text, detections) returned for the texts the detectors
\* found, and last_result afterwards; one detection per text
DetectCodesWithPositions(last, texts) ==
    LET combined_text == Join(texts, <<",", " ">>)
    IN  IF Len(texts) = 0
        THEN [decoded_text |-> None, detections |-> <<>>, last_result |-> last]
        ELSE IF combined_text # last
        THEN [decoded_text |-> combined_text, detections |-> texts,
              last_result |-> combined_text]
        ELSE [decoded_text |-> None, detections |-> texts, last_result |-> last]

(***************************************************************************)
(* camera_worker.py : the recognition worker                               *)
(***************************************************************************)
\* code_type and text of one piece of decoded_text.split(',')
CodeType(code) == IF Contains(code, ":") THEN Split1(code, ":")[1] ELSE Unknown
CodeData(code) == IF Contains(code, ":") THEN Split1(code, ":")[2] ELSE code

\* the (text, code_type) pairs add_code is called with for a decoded text:
\* the call follows the loop over the codes, so it sees the last code only
StoredCodes(decoded_text) ==
    LET codes == Split(decoded_text, ",")
        code  == codes[Len(codes)]
    IN  <<[text |-> CodeData(code), code_type |-> CodeType(code)]>>

Workers == 1..MaxRuns
Alive(w) == wpc[w] \in {"loop", "get", "detect"}

\* self.recognition_running = False: the workers alive at that moment have
\* been signalled to stop
Signalled == h_signalled \cup {w \in Workers : Alive(w)}

\* what the last iteration of the worker did: the texts the detectors found,
\* the decoded text, the texts add_code was called with, whether a text of
\* the batch was not stored before, whether the result signal was emitted,
\* the list the detection signal carried (None when not emitted) and
\* whether the iteration raised
ProcNote(batch, decoded, added, hadNew, published, detections, raised) ==
    [batch |-> batch, decoded |-> decoded, added |-> added, hadNew |-> hadNew,
     published |-> published, detections |-> detections, raised |-> raised]
NoProc == ProcNote(<<>>, None, <<>>, FALSE, FALSE, None, FALSE)

\* a worker that shows detections only together with a newly decoded text
EmittedDetections_OnlyWhenDecoded(decoded_text, detections) ==
    IF decoded_text = None THEN None ELSE detections

\* self.detection_signal.emit(detections): the list the signal carries
EmittedDetections(decoded_text, detections) == detections

\* a loop that does not look at its flag
WorkerLoop_IgnoresFlag(w) ==
    /\ wpc[w] = "loop"
    /\ wpc' = [wpc EXCEPT ![w] = "get"]
    /\ getTimer' = [getTimer EXCEPT ![w] = 0]
    /\ UNCHANGED <<h_c7, appVars, h_signalled, wimg, recognition_thread, storeVars, storeHist, flagVars,
                   recognition_queue, frameVars, threadVars, recogVars, deviceVars,
                   error_emits>>

\* while self.recognition_running
WorkerLoop(w) ==
    /\ wpc[w] = "loop"
    /\ IF recognition_running
       THEN wpc' = [wpc EXCEPT ![w] = "get"] /\ getTimer' = [getTimer EXCEPT ![w] = 0]
       ELSE wpc' = [wpc EXCEPT ![w] = "dead"] /\ getTimer' = getTimer
    /\ UNCHANGED <<h_c7, appVars, h_signalled, wimg, recognition_thread, storeVars, storeHist, flagVars,
                   recognition_queue, frameVars, threadVars, recogVars, deviceVars,
                   error_emits>>

\* a get that returns the image queued last
WorkerGet_TakesNewest(w) ==
    /\ wpc[w] = "get"
    /\ Len(recognition_queue) > 0
    /\ wimg' = [wimg EXCEPT ![w] = recognition_queue[Len(recognition_queue)]]
    /\ recognition_queue' = SubSeq(recognition_queue, 1, Len(recognition_queue) - 1)
    /\ wpc' = [wpc EXCEPT ![w] = "detect"]
    /\ h_c7' = IF h_c7 = "armed" /\ w = recognition_thread THEN "dequeued" ELSE h_c7
    /\ UNCHANGED <<appVars, h_signalled, getTimer, recognition_thread, storeVars, storeHist, flagVars,
                   frameVars, threadVars, recogVars, deviceVars, error_emits>>

\* recognition_queue.get(timeout=0.5) returns the oldest image
WorkerGet(w) ==
    /\ wpc[w] = "get"
    /\ Len(recognition_queue) > 0
    /\ wimg' = [wimg EXCEPT ![w] = Head(recognition_queue)]
    /\ recognition_queue' = Tail(recognition_queue)
    /\ wpc' = [wpc EXCEPT ![w] = "detect"]
    /\ h_c7' = IF h_c7 = "armed" /\ w = recognition_thread THEN "dequeued" ELSE h_c7
    /\ UNCHANGED <<appVars, h_signalled, getTimer, recognition_thread, storeVars, storeHist, flagVars,
                   frameVars, threadVars, recogVars, deviceVars, error_emits>>

\* recognition_queue.get(timeout=0.5) raises queue.Empty: continue
WorkerGetTimeout(w) ==
    /\ wpc[w] = "get"
    /\ Len(recognition_queue) = 0
    /\ getTimer[w] >= DequeueTimeoutTicks
    /\ wpc' = [wpc EXCEPT ![w] = "loop"]
    /\ h_c7' = IF h_c7 = "armed" /\ w = recognition_thread THEN "timedout" ELSE h_c7
    /\ UNCHANGED <<appVars, h_signalled, wimg, getTimer, recognition_thread, storeVars, storeHist, flagVars,
                   recognition_queue, frameVars, threadVars, recogVars, deviceVars,
                   error_emits>>

\* the body of the loop for the image taken: detection, storing, signals.
\* texts is what the detectors find in the image, wr and dt the outcome of
\* the file write and the time passed, should a code be stored
WorkerProcess(w, texts, wr, dt) ==
    LET d == DetectCodesWithPositions(last_result, texts)
        shown == EmittedDetections(d.decoded_text, d.detections)
        calls == IF d.decoded_text # None /\ Len(d.decoded_text) > 0
                 THEN StoredCodes(d.decoded_text) ELSE <<>>
    IN  /\ wpc[w] = "detect"
        /\ wpc' = [wpc EXCEPT ![w] = "loop"]
        /\ wimg' = [wimg EXCEPT ![w] = 0]
        /\ last_result' = d.last_result
        /\ detection_emits' = IF shown # None THEN detection_emits + 1 ELSE detection_emits
        /\ IF Len(calls) = 0
           THEN /\ UNCHANGED <<storeVars, storeHist, result_emits>>
                /\ h_proc' = ProcNote(texts, d.decoded_text, <<>>, FALSE, FALSE,
                                      shown, FALSE)
           ELSE LET c == calls[1]
                    r == AddCode(codes_cache, storage_file, max_cache_size, c.text,
                                 c.code_type, now + dt, wr)
                IN  /\ AddCodeCall(c.text, c.code_type, wr, dt)
                    /\ result_emits' = IF r.is_new THEN result_emits + 1 ELSE result_emits
                    /\ h_proc' = ProcNote(texts, d.decoded_text, <<c.text>>,
                                    \E i \in 1..Len(texts) :
                                        CodeData(texts[i]) \notin KeySet(codes_cache),
                                    r.is_new, shown, FALSE)
        /\ UNCHANGED <<h_c7, appVars, h_signalled, getTimer, recognition_thread, flagVars, recognition_queue,
                       frameVars, threadVars, deviceVars, error_emits>>

\* an exception in the body of the loop that ends the thread
WorkerRaise_EndsWorker(w) ==
    /\ wpc[w] = "detect"
    /\ wpc' = [wpc EXCEPT ![w] = "dead"]
    /\ wimg' = [wimg EXCEPT ![w] = 0]
    /\ h_proc' = ProcNote(<<>>, None, <<>>, FALSE, FALSE, None, TRUE)
    /\ UNCHANGED <<h_c7, appVars, h_signalled, getTimer, recognition_thread, storeVars, storeHist, flagVars,
                   recognition_queue, frameVars, threadVars, last_result, result_emits,
                   detection_emits, deviceVars, error_emits>>

\* the body of the loop raises (in the detection or before it): the
\* exception is logged and the loop goes on
WorkerRaise(w) ==
    /\ wpc[w] = "detect"
    /\ wpc' = [wpc EXCEPT ![w] = "loop"]
    /\ wimg' = [wimg EXCEPT ![w] = 0]
    /\ h_proc' = ProcNote(<<>>, None, <<>>, FALSE, FALSE, None, TRUE)
    /\ UNCHANGED <<h_c7, appVars, h_signalled, getTimer, recognition_thread, storeVars, storeHist, flagVars,
                   recognition_queue, frameVars, threadVars, last_result, result_emits,
                   detection_emits, deviceVars, error_emits>>

(***************************************************************************)
(* camera_worker.py : the pipeline thread (run, _cleanup) and stop         *)
(***************************************************************************)
\* what the current run of the thread did: acquisition started, the calls of
\* IMV_StopGrabbing and what the last returned, _cleanup entered, the join
\* timed out, how run left its try block, the error signals it emitted and
\* whether stop() was called since start()
RunNote(started, stops, stopRet, cleaned, timedOut, exit, errors, stopRequested) ==
    [started |-> started, stopGrabs |-> stops, stopRet |-> stopRet, cleanup |-> cleaned,
     joinTimedOut |-> timedOut, exit |-> exit, errors |-> errors,
     stopRequested |-> stopRequested]
NoRun == RunNote(FALSE, 0, "none", FALSE, FALSE, "none", 0, FALSE)

\* the pipeline states of the design, read off the thread's position
Idle     == tpc = "idle"
Acquiring == tpc \in {"run", "start_recognition", "attach", "start_grabbing"}
Running  == tpc = "wait" /\ running
Stopping == tpc \in {"cleanup", "join", "stop_grabbing"} \/ (tpc = "wait" /\ ~running)
Stopped  == tpc = "done"

\* QThread.start(): the thread begins run() unless it is running already
Start(limit) ==
    /\ tpc \in {"idle", "done"}
    /\ runs < limit
    /\ tpc' = "run"
    /\ runs' = runs + 1
    /\ h_run' = NoRun
    /\ h_c7' = "none"
    /\ UNCHANGED <<appVars, h_signalled, joinTimer, storeVars, storeHist, flagVars, recognition_queue,
                   frameVars, workerVars, recogVars, deviceVars, error_emits>>

\* stop()
Stop ==
    /\ runs > 0
    /\ running' = FALSE
    /\ recognition_running' = FALSE
    /\ h_c7' = IF Running /\ recognition_thread # 0 /\ wpc[recognition_thread] = "get"
                  /\ Len(recognition_queue) = 0 /\ h_c7 = "none"
               THEN "armed"
               ELSE h_c7
    /\ h_run' = [h_run EXCEPT !.stopRequested = TRUE]
    /\ h_signalled' = Signalled
    /\ UNCHANGED <<appVars, tpc, runs, joinTimer, storeVars, storeHist, recognition_queue,
                   frameVars, workerVars, recogVars, deviceVars, error_emits>>

\* run(): self.running = True
RunBegin ==
    /\ tpc = "run"
    /\ running' = TRUE
    /\ tpc' = "start_recognition"
    /\ UNCHANGED <<h_c7, appVars, h_signalled, recognition_running, runs, joinTimer, h_run, storeVars, storeHist,
                   recognition_queue, frameVars, workerVars, recogVars, deviceVars,
                   error_emits>>

\* an exception in run(): the error signal, then the finally block
RunRaise(at) ==
    /\ tpc = at
    /\ tpc' = "cleanup"
    /\ error_emits' = error_emits + 1
    /\ h_run' = [h_run EXCEPT !.exit = "exception", !.errors = @ + 1]

\* step 1: the recognition thread is created and started
RunStartRecognition ==
    /\ tpc = "start_recognition"
    /\ recognition_running' = TRUE
    /\ recognition_thread' = runs
    /\ wpc' = [wpc EXCEPT ![runs] = "loop"]
    /\ tpc' = "attach"
    /\ UNCHANGED <<h_c7, appVars, h_signalled, running, runs, joinTimer, h_run, wimg, getTimer, storeVars, storeHist,
                   recognition_queue, frameVars, recogVars, deviceVars, error_emits>>

\* step 1 raises before the thread exists
RunStartRecognitionRaises ==
    /\ RunRaise("start_recognition")
    /\ UNCHANGED <<h_c7, appVars, h_signalled, runs, joinTimer, storeVars, storeHist, flagVars, recognition_queue,
                   frameVars, workerVars, recogVars, deviceVars>>

\* step 2: IMV_AttachGrabbing returns ret
RunAttach(ret) ==
    /\ tpc = "attach"
    /\ IF ret = IMV_OK
       THEN /\ attached' = TRUE
            /\ tpc' = "start_grabbing"
            /\ UNCHANGED <<error_emits, h_run>>
       ELSE /\ attached' = attached
            /\ tpc' = "cleanup"
            /\ error_emits' = error_emits + 1
            /\ h_run' = [h_run EXCEPT !.exit = "attach", !.errors = @ + 1]
    /\ UNCHANGED <<h_c7, appVars, h_signalled, grabbing, runs, joinTimer, storeVars, storeHist, flagVars,
                   recognition_queue, frameVars, workerVars, recogVars>>

\* a failed start of the acquisition that returns past the finally block
RunStartGrabbing_ReturnsWithoutCleanup(ret) ==
    /\ tpc = "start_grabbing"
    /\ IF ret = IMV_OK
       THEN /\ grabbing' = TRUE
            /\ tpc' = "wait"
            /\ h_run' = [h_run EXCEPT !.started = TRUE]
            /\ UNCHANGED error_emits
       ELSE /\ grabbing' = grabbing
            /\ tpc' = "done"
            /\ error_emits' = error_emits + 1
            /\ h_run' = [h_run EXCEPT !.exit = "start", !.errors = @ + 1]
    /\ UNCHANGED <<h_c7, appVars, h_signalled, attached, runs, joinTimer, storeVars, storeHist, flagVars,
                   recognition_queue, frameVars, workerVars, recogVars>>

\* step 3: IMV_StartGrabbing returns ret
RunStartGrabbing(ret) ==
    /\ tpc = "start_grabbing"
    /\ IF ret = IMV_OK
       THEN /\ grabbing' = TRUE
            /\ tpc' = "wait"
            /\ h_run' = [h_run EXCEPT !.started = TRUE]
            /\ UNCHANGED error_emits
       ELSE /\ grabbing' = grabbing
            /\ tpc' = "cleanup"
            /\ error_emits' = error_emits + 1
            /\ h_run' = [h_run EXCEPT !.exit = "start", !.errors = @ + 1]
    /\ UNCHANGED <<h_c7, appVars, h_signalled, attached, runs, joinTimer, storeVars, storeHist, flagVars,
                   recognition_queue, frameVars, workerVars, recogVars>>

\* step 3 raises: the call into the SDK fails before the device starts
RunStartGrabbingRaises ==
    /\ RunRaise("start_grabbing")
    /\ UNCHANGED <<h_c7, appVars, h_signalled, runs, joinTimer, storeVars, storeHist, flagVars, recognition_queue,
                   frameVars, workerVars, recogVars, deviceVars>>

\* step 4: while self.running: msleep(100)
RunWait ==
    /\ tpc = "wait"
    /\ ~running
    /\ tpc' = "cleanup"
    /\ h_run' = [h_run EXCEPT !.exit = "stop"]
    /\ UNCHANGED <<h_c7, appVars, h_signalled, runs, joinTimer, storeVars, storeHist, flagVars, recognition_queue,
                   frameVars, workerVars, recogVars, deviceVars, error_emits>>

\* _cleanup: if the recognition thread is alive, clear its flag and join it
CleanupBegin ==
    /\ tpc = "cleanup"
    /\ IF recognition_thread # 0 /\ Alive(recognition_thread)
       THEN /\ recognition_running' = FALSE
            /\ h_signalled' = Signalled
            /\ tpc' = "join"
            /\ joinTimer' = 0
       ELSE /\ recognition_running' = recognition_running
            /\ h_signalled' = h_signalled
            /\ tpc' = "stop_grabbing"
            /\ joinTimer' = joinTimer
    /\ h_run' = [h_run EXCEPT !.cleanup = TRUE]
    /\ UNCHANGED <<h_c7, appVars, running, runs, storeVars, storeHist, recognition_queue, frameVars,
                   workerVars, recogVars, deviceVars, error_emits>>

\* join(timeout=2.0) returns: the thread ended
JoinReturn ==
    /\ tpc = "join"
    /\ ~Alive(recognition_thread)
    /\ tpc' = "stop_grabbing"
    /\ UNCHANGED <<h_c7, appVars, h_signalled, runs, joinTimer, h_run, storeVars, storeHist, flagVars,
                   recognition_queue, frameVars, workerVars, recogVars, deviceVars,
                   error_emits>>

\* a cleanup that gives up when the join times out
JoinTimeout_SkipsRelease ==
    /\ tpc = "join"
    /\ Alive(recognition_thread)
    /\ joinTimer >= JoinTimeoutTicks
    /\ tpc' = "done"
    /\ h_run' = [h_run EXCEPT !.joinTimedOut = TRUE]
    /\ UNCHANGED <<h_c7, appVars, h_signalled, runs, joinTimer, storeVars, storeHist, flagVars,
                   recognition_queue, frameVars, workerVars, recogVars, deviceVars,
                   error_emits>>

\* join(timeout=2.0) returns: two seconds passed and the thread is alive
JoinTimeout ==
    /\ tpc = "join"
    /\ Alive(recognition_thread)
    /\ joinTimer >= JoinTimeoutTicks
    /\ tpc' = "stop_grabbing"
    /\ h_run' = [h_run EXCEPT !.joinTimedOut = TRUE]
    /\ UNCHANGED <<h_c7, appVars, h_signalled, runs, joinTimer, storeVars, storeHist, flagVars, recognition_queue,
                   frameVars, workerVars, recogVars, deviceVars, error_emits>>

\* the device after IMV_StopGrabbing returned ret: stopped on success,
\* as it was on an error
StopGrabbing(ret) == IF ret = IMV_OK THEN FALSE ELSE grabbing

\* _cleanup: if self.camera.IMV_IsGrabbing(): IMV_StopGrabbing(), returning ret
CleanupStopGrabbing(ret) ==
    /\ tpc = "stop_grabbing"
    /\ IF grabbing
       THEN /\ grabbing' = StopGrabbing(ret)
            /\ h_run' = [h_run EXCEPT !.stopGrabs = @ + 1,
                                      !.stopRet = IF ret = IMV_OK THEN "ok" ELSE "error"]
       ELSE /\ ret = IMV_OK
            /\ UNCHANGED <<grabbing, h_run>>
    /\ tpc' = "done"
    /\ UNCHANGED <<h_c7, appVars, h_signalled, attached, runs, joinTimer, storeVars, storeHist, flagVars,
                   recognition_queue, frameVars, workerVars, recogVars, error_emits>>

(***************************************************************************)
(* camera_app.py : disconnect_camera                                       *)
(***************************************************************************)
\* QThread.isRunning()
IsRunning == tpc \notin {"idle", "done", "terminated"}

\* disconnect_camera: self.worker.stop(), then self.worker.wait(5000) begins
Disconnect ==
    /\ apc = "none"
    /\ runs > 0
    /\ running' = FALSE
    /\ recognition_running' = FALSE
    /\ apc' = "waiting"
    /\ waitTimer' = 0
    /\ h_run' = [h_run EXCEPT !.stopRequested = TRUE]
    /\ h_signalled' = Signalled
    /\ UNCHANGED <<h_c7, is_grabbing, tpc, runs, joinTimer, storeVars, storeHist, recognition_queue,
                   frameVars, workerVars, recogVars, deviceVars, error_emits>>

\* wait(5000) returns because the thread finished: self.worker = None
DisconnectWaitReturn ==
    /\ apc = "waiting"
    /\ ~IsRunning
    /\ apc' = "gone"
    /\ UNCHANGED <<h_c7, waitTimer, is_grabbing, h_signalled, storeVars, storeHist, flagVars, recognition_queue,
                   frameVars, threadVars, workerVars, recogVars, deviceVars, error_emits>>

\* wait(5000) timed out and isRunning(): self.worker.terminate()
DisconnectTerminate ==
    /\ apc = "waiting"
    /\ waitTimer >= WaitTimeoutTicks
    /\ IsRunning
    /\ tpc' = "terminated"
    /\ apc' = "gone"
    /\ UNCHANGED <<h_c7, waitTimer, is_grabbing, h_signalled, runs, joinTimer, h_run, storeVars, storeHist, flagVars,
                   recognition_queue, frameVars, workerVars, recogVars, deviceVars,
                   error_emits>>

(***************************************************************************)
(* camera_app.py : CameraParameterWindow.pause_grabbing, resume_grabbing   *)
(***************************************************************************)
\* pause_grabbing: self.worker.stop(), then self.worker.wait(1000) begins
Pause ==
    /\ apc = "none"
    /\ runs > 0
    /\ is_grabbing
    /\ running' = FALSE
    /\ recognition_running' = FALSE
    /\ apc' = "pausing"
    /\ waitTimer' = 0
    /\ h_run' = [h_run EXCEPT !.stopRequested = TRUE]
    /\ h_signalled' = Signalled
    /\ UNCHANGED <<h_c7, is_grabbing, tpc, runs, joinTimer, storeVars, storeHist,
                   recognition_queue, frameVars, workerVars, recogVars, deviceVars,
                   error_emits>>

\* wait(1000) returns, the thread finished or not: self.is_grabbing = False
PauseWaitReturn ==
    /\ apc = "pausing"
    /\ ~IsRunning \/ waitTimer >= PauseWaitTicks
    /\ is_grabbing' = FALSE
    /\ apc' = "paused"
    /\ UNCHANGED <<h_c7, h_signalled, waitTimer, storeVars, storeHist, flagVars,
                   recognition_queue, frameVars, threadVars, workerVars, recogVars,
                   deviceVars, error_emits>>

\* resume_grabbing: self.worker.start(), which does nothing while the thread
\* is running, then self.is_grabbing = True
Resume ==
    /\ apc = "paused"
    /\ IF IsRunning
       THEN UNCHANGED <<tpc, runs, h_run, h_c7>>
       ELSE /\ tpc' = "run"
            /\ runs' = runs + 1
            /\ h_run' = NoRun
            /\ h_c7' = "none"
    /\ is_grabbing' = TRUE
    /\ apc' = "resumed"
    /\ UNCHANGED <<h_signalled, waitTimer, joinTimer, storeVars, storeHist, flagVars,
                   recognition_queue, frameVars, workerVars, recogVars, deviceVars,
                   error_emits>>

(***************************************************************************)
(* Time, in half seconds.  A thread that can take a step without waiting   *)
(* takes it before time passes; time passes while a worker waits in get on *)
(* an empty queue or is busy with an image, and for the thread in join.    *)
(***************************************************************************)
Urgent ==
    \/ \E w \in Workers : wpc[w] = "loop"
    \/ \E w \in Workers : wpc[w] = "get" /\ Len(recognition_queue) > 0
    \/ \E w \in Workers : wpc[w] = "get" /\ getTimer[w] >= DequeueTimeoutTicks
    \/ tpc = "join" /\ ~Alive(recognition_thread)
    \/ tpc = "join" /\ joinTimer >= JoinTimeoutTicks
    \/ apc = "waiting" /\ tpc \in {"idle", "done"}
    \/ apc = "waiting" /\ waitTimer >= WaitTimeoutTicks
    \/ apc = "pausing" /\ tpc \in {"idle", "done"}
    \/ apc = "pausing" /\ waitTimer >= PauseWaitTicks

Tick ==
    /\ ~Urgent
    /\ \/ tpc = "join"
       \/ \E w \in Workers : wpc[w] = "get"
       \/ apc \in {"waiting", "pausing"}
    /\ joinTimer' = IF tpc = "join" THEN joinTimer + 1 ELSE joinTimer
    /\ getTimer' = [w \in Workers |-> IF wpc[w] = "get" THEN getTimer[w] + 1
                                      ELSE getTimer[w]]
    /\ waitTimer' = IF apc \in {"waiting", "pausing"} THEN waitTimer + 1 ELSE waitTimer
    /\ UNCHANGED <<h_c7, apc, is_grabbing, h_signalled, tpc, runs, h_run, wpc, wimg, recognition_thread, storeVars, storeHist,
                   flagVars, recognition_queue, frameVars, recogVars, deviceVars,
                   error_emits>>

(***************************************************************************)
(* Initial states and specifications.                                      *)
(***************************************************************************)
\* smallest size threshold a store of SpecStore is constructed with
SmallFileSizeMb == 1

\* CameraWorker.__init__, before start()
InitPipeline ==
    /\ running = FALSE
    /\ recognition_running = FALSE
    /\ recognition_queue = <<>>
    /\ recognition_thread = 0
    /\ frame_count = 0
    /\ display_count = 0
    /\ fps_frame_count = 0
    /\ last_result = None
    /\ tpc = "idle"
    /\ runs = 0
    /\ wpc = [w \in Workers |-> "unborn"]
    /\ wimg = [w \in Workers |-> 0]
    /\ getTimer = [w \in Workers |-> 0]
    /\ joinTimer = 0
    /\ grabbing = FALSE
    /\ attached = FALSE
    /\ image_emits = 0
    /\ error_emits = 0
    /\ result_emits = 0
    /\ detection_emits = 0
    /\ fps_emits = 0
    /\ h_frame = NoFrame
    /\ h_failRun = 0
    /\ h_badShown = 0
    /\ h_shown = <<>>
    /\ h_proc = NoProc
    /\ h_run = NoRun
    /\ h_c7 = "none"
    /\ h_signalled = {}
    /\ is_grabbing = TRUE
    /\ apc = "none"
    /\ waitTimer = 0

\* CodeStorage.__init__ on the file f
InitStorage(f, cap, mb) ==
    /\ codes_cache = LoadFromFile(f, cap, mb)
    /\ storage_file = f
    /\ max_cache_size = cap
    /\ max_file_size_mb = mb
    /\ now = StartOfSession
    /\ h_calls = <<>>
    /\ h_first = <<>>
    /\ h_more = (LoadFromFile(f, cap, mb) # <<>>)
    /\ h_fresh = TRUE
    /\ lock = 0
    /\ callers = [c \in Callers |-> IdleCaller]
    /\ h_rets = [t \in StoreTexts |-> [done |-> 0, trues |-> 0]]

\* a store constructed on any file, with a small capacity
InitStore ==
    /\ \E f \in Files, cap \in 1..MaxCacheBound,
          mb \in {SmallFileSizeMb, DefaultMaxFileSizeMb} : InitStorage(f, cap, mb)
    /\ InitPipeline

NextStore ==
    \/ StoreAdd
    \/ Reopen

SpecStore == InitStore /\ [][NextStore]_vars

\* the pipeline as camera_app constructs it: CodeStorage() with its defaults
InitCamera ==
    /\ InitStorage(NoFile, DefaultMaxCacheSize, DefaultMaxFileSizeMb)
    /\ InitPipeline

\* the steps of the pipeline thread
RunSteps ==
    \/ RunBegin
    \/ RunStartRecognition
    \/ RunStartRecognitionRaises
    \/ \E ret \in {IMV_OK, -1} : RunAttach(ret)
    \/ \E ret \in {IMV_OK, -1} : RunStartGrabbing(ret)
    \/ RunStartGrabbingRaises
    \/ RunWait
    \/ CleanupBegin
    \/ JoinReturn
    \/ JoinTimeout
    \/ \E ret \in {IMV_OK, -1} : CleanupStopGrabbing(ret)

\* the steps of one recognition worker on images in which nothing is decoded
WorkerStep(w) ==
    \/ WorkerLoop(w)
    \/ WorkerGet(w)
    \/ WorkerGetTimeout(w)
    \/ WorkerProcess(w, <<>>, "ok", 0)

\* frames of every kind during one run of the pipeline
NextFrames ==
    \/ Start(1)
    \/ Stop
    \/ RunSteps
    \/ \E w \in Workers : WorkerStep(w)
    \/ Tick
    \/ \E f \in GoodFrames \cup BadFrames \cup {NullFrame} : FrameCallback(f, MaxFrames)

SpecFrames == InitCamera /\ [][NextFrames]_vars

\* largest number of normalised frames followed across starts and stops
LifeFrames == 11
\* largest number of normalised frames followed while codes are decoded
RecogFrames == 20

\* starts, stops and restarts of the pipeline, with every outcome of the
\* SDK calls, while the device delivers good frames
NextLife ==
    \/ Start(MaxRuns)
    \/ Stop
    \/ RunSteps
    \/ \E w \in Workers : WorkerStep(w)
    \/ Tick
    \/ FrameCallback(Frame("Mono8", TRUE, 0), LifeFrames)

SpecLife == InitCamera /\ [][NextLife]_vars

\* threads calling into the store of the pipeline
NextLock ==
    \/ \E c \in Callers, t \in StoreTexts, k \in Kinds : AddLock(c, t, k)
    \/ \E c \in Callers : AddTest(c)
    \/ \E c \in Callers : AddInsert(c)
    \/ \E c \in Callers, wr \in StoreWriteOutcomes : AddSave(c, wr)
    \/ \E c \in Callers : GetAllLock(c)
    \/ \E c \in Callers : GetAllRead(c)
    \/ \E c \in Callers : Unlock(c)

SpecLock == InitCamera /\ [][NextLock]_vars

\* one pipeline from connect_camera to disconnect_camera
NextApp ==
    \/ Start(1)
    \/ Stop
    \/ Disconnect
    \/ DisconnectWaitReturn
    \/ DisconnectTerminate
    \/ RunSteps
    \/ \E w \in Workers : WorkerStep(w)
    \/ Tick
    \/ FrameCallback(Frame("Mono8", TRUE, 0), LifeFrames)

SpecApp == InitCamera /\ [][NextApp]_vars

\* one pipeline whose stream is paused and resumed from the parameter
\* window, while the SDK calls succeed and the device delivers good frames
NextPause ==
    \/ Start(1)
    \/ Pause
    \/ PauseWaitReturn
    \/ Resume
    \/ RunBegin
    \/ RunStartRecognition
    \/ RunAttach(IMV_OK)
    \/ RunStartGrabbing(IMV_OK)
    \/ RunWait
    \/ CleanupBegin
    \/ JoinReturn
    \/ JoinTimeout
    \/ CleanupStopGrabbing(IMV_OK)
    \/ \E w \in Workers : WorkerStep(w)
    \/ Tick
    \/ FrameCallback(Frame("Mono8", TRUE, 0), LifeFrames)

SpecPause == InitCamera /\ [][NextPause]_vars

\* the threads are scheduled fairly, the engine returns and time passes
FairLife ==
    /\ SpecLife
    /\ WF_vars(RunSteps)
    /\ \A w \in Workers : WF_vars(WorkerStep(w))
    /\ WF_vars(Tick)

\* what the detectors find in an image: QR texts first, then barcode texts
DataA == <<"a">>
DataB == <<"b">>
Batches == {<<>>,
            <<CodeText(QR, DataA)>>,
            <<CodeText(EAN13, DataB)>>,
            <<CodeText(QR, DataA), CodeText(EAN13, DataB)>>}

\* one run of the pipeline on good frames in which codes are decoded
NextRecog ==
    \/ Start(1)
    \/ RunBegin
    \/ RunStartRecognition
    \/ RunAttach(IMV_OK)
    \/ RunStartGrabbing(IMV_OK)
    \/ \E w \in Workers : WorkerLoop(w)
    \/ \E w \in Workers : WorkerGet(w)
    \/ \E w \in Workers : WorkerGetTimeout(w)
    \/ \E w \in Workers, texts \in Batches, wr \in WriteOutcomes, dt \in {0, 1} :
            WorkerProcess(w, texts, wr, dt)
    \/ \E w \in Workers : WorkerRaise(w)
    \/ Tick
    \/ FrameCallback(Frame("Mono8", TRUE, 0), RecogFrames)

SpecRecog == InitCamera /\ [][NextRecog]_vars

\* the steps of one recognition worker on images of every kind
RecogWorkerStep(w) ==
    \/ WorkerLoop(w)
    \/ WorkerGet(w)
    \/ WorkerGetTimeout(w)
    \/ \E texts \in Batches, wr \in WriteOutcomes, dt \in {0, 1} :
            WorkerProcess(w, texts, wr, dt)
    \/ WorkerRaise(w)

\* the worker thread is scheduled, the engine returns or raises, time passes
FairRecog ==
    /\ SpecRecog
    /\ \A w \in Workers : WF_vars(RecogWorkerStep(w))
    /\ WF_vars(Tick)

(***************************************************************************)
(* Properties.                                                             *)
(***************************************************************************)

\* C1: every frame handed to _convert_frame_to_rgb is released to the driver
\* exactly once, whether the conversion succeeds, fails or raises.
C1_EveryFrameReleasedOnce ==
    h_frame.handed => h_frame.released = 1

\* C2: a frame on a recognition boundary that finds the queue full is
\* dropped without an error signal and without a change to the queue or to
\* the pipeline's flags and position; every normalised frame, that one and
\* the ones after it, gives its display event; and the callback is never
\* kept waiting: while the device delivers, it can run whatever the queue holds.
C2_CallbackStep ==
    frame_count' = frame_count + 1 =>
        /\ image_emits' = image_emits + 1
        /\ error_emits' = error_emits
        /\ (frame_count' % recognition_interval = 0
            /\ Len(recognition_queue) = QueueMaxSize) =>
                /\ recognition_queue' = recognition_queue
                /\ <<running, recognition_running, tpc, wpc>>'
                       = <<running, recognition_running, tpc, wpc>>
C2_CallbackReady ==
    (grabbing /\ attached /\ frame_count < MaxFrames) =>
        ENABLED FrameCallback(Frame("Mono8", TRUE, 0), MaxFrames)
C2_FullQueueNeverBlocks ==
    [][C2_CallbackStep]_vars /\ []C2_CallbackReady
C2_Witness ==
    /\ h_frame.enq = "full"
    /\ h_frame.displayed
    /\ Len(recognition_queue) = QueueMaxSize
    /\ frame_count = 3 * recognition_interval

\* C3: on a store that does not hold t, two consecutive add_code(t, k)
\* return True then False, and the store then holds exactly one entry for t.
C3_DedupIdempotence ==
    (Len(h_calls) = 2 /\ h_calls[1].text = h_calls[2].text /\ ~h_calls[1].had) =>
        /\ h_calls[1].ret
        /\ ~h_calls[2].ret
        /\ Cardinality({i \in 1..Len(codes_cache) :
                            codes_cache[i].info = h_calls[2].text}) = 1
C3_Witness ==
    /\ Len(h_calls) = 2 /\ h_calls[1].text = h_calls[2].text /\ ~h_calls[1].had
    /\ ~h_calls[2].ret

\* C4: after max_cache_size + 1 pairwise distinct texts were added to a store
\* constructed empty, the store holds max_cache_size entries, the first text
\* is gone and the last one is stored.
C4_CapacityBound ==
    (~h_more /\ Len(h_first) = max_cache_size + 1) =>
        /\ Len(codes_cache) = max_cache_size
        /\ h_first[1] \notin KeySet(codes_cache)
        /\ h_first[Len(h_first)] \in KeySet(codes_cache)
C4_Witness ==
    /\ ~h_more /\ Len(h_first) = max_cache_size + 1
    /\ max_cache_size = MaxCacheBound
    /\ Len(codes_cache) = max_cache_size

\* the store was just constructed on a file over the size threshold that
\* holds more than max_cache_size entries, with pairwise distinct timestamps
C5_LargeFile ==
    /\ h_fresh
    /\ storage_file.kind = "json"
    /\ FileSizeMb(storage_file) > max_file_size_mb
    /\ Len(storage_file.codes) > max_cache_size
    /\ Distinct([i \in 1..Len(storage_file.codes) |-> storage_file.codes[i].timestamp])
\* the entries of the file that the store does not hold
C5_Discarded ==
    {storage_file.codes[i] : i \in 1..Len(storage_file.codes)}
        \ {codes_cache[i] : i \in 1..Len(codes_cache)}
C5_NewestKept ==
    /\ Len(codes_cache) = max_cache_size
    /\ \A i \in 1..Len(codes_cache) : \A d \in C5_Discarded :
            codes_cache[i].timestamp >= d.timestamp

\* C5 as claimed: the store holds exactly max_cache_size entries, each at
\* least as recent as every discarded entry.
C5_PartialLoad_Claimed ==
    C5_LargeFile => C5_NewestKept

\* C5, amended: the same, for a file whose entries also have pairwise
\* distinct texts.
C5_PartialLoad ==
    (C5_LargeFile
     /\ Distinct([i \in 1..Len(storage_file.codes) |-> storage_file.codes[i].info]))
        => C5_NewestKept
C5_Witness ==
    /\ C5_LargeFile
    /\ Distinct([i \in 1..Len(storage_file.codes) |-> storage_file.codes[i].info])
    /\ max_cache_size = MaxCacheBound
    /\ C5_NewestKept

\* C6: when five consecutive frames fail normalisation and the sixth is
\* normalised, the five give no display event and the sixth gives one.
C6_FiveFailuresThenOne ==
    (h_frame.handed /\ ~h_frame.bad /\ h_frame.failsBefore = 5) =>
        /\ h_frame.badShown = 0
        /\ h_frame.displayed
C6_Witness ==
    /\ h_frame.handed /\ ~h_frame.bad /\ h_frame.failsBefore = 5
    /\ h_frame.displayed
    /\ image_emits = frame_count

\* C7: a stop() that finds the pipeline running and the worker waiting on
\* the empty queue leads to Stopped; when the worker's wait then times out,
\* the worker ends and the join of the cleanup does not time out.
C7_WorkerEnded == recognition_thread \in Workers /\ wpc[recognition_thread] = "dead"
C7_TimedOutWorkerJoined ==
    (h_c7 = "timedout" /\ Stopped) =>
        /\ C7_WorkerEnded
        /\ ~h_run.joinTimedOut
        /\ h_run.cleanup
C7_StopWhileWorkerWaits ==
    /\ (h_c7 = "armed") ~> Stopped
    /\ (h_c7 = "timedout") ~> C7_WorkerEnded
    /\ []C7_TimedOutWorkerJoined
C7_Witness ==
    /\ h_c7 = "timedout"
    /\ Stopped
    /\ h_run.exit = "stop"
    /\ C7_WorkerEnded

\* what C8 says of a finished run: the cleanup ran, IMV_StopGrabbing was
\* called once if the run had started the acquisition
C8_CleanupRan ==
    /\ h_run.stopGrabs <= 1
    /\ (Stopped /\ runs > 0) =>
        /\ h_run.cleanup
        /\ h_run.started => h_run.stopGrabs = 1

C9_EveryEntryStored ==
    h_proc.decoded # None =>
        /\ Len(h_proc.added) = Len(h_proc.batch)
        /\ \A i \in 1..Len(h_proc.batch) :
                CodeData(h_proc.batch[i]) \in KeySet(codes_cache)

\* C10: for a decoded batch the new-result signal is emitted exactly when
\* some entry's text was not stored before.
C10_PublishedIffNew ==
    h_proc.decoded # None => (h_proc.published <=> h_proc.hadNew)

\* a step that ends the processing of one image
C11_ImageDone(w) == wpc[w] = "detect" /\ wpc'[w] # "detect"
C11_Step ==
    IF \E w \in Workers : C11_ImageDone(w) /\ ~h_proc'.raised
    THEN /\ detection_emits' = detection_emits + 1
         /\ h_proc'.detections = h_proc'.batch
    ELSE detection_emits' = detection_emits

\* C11: every image the worker dequeues and the engine returns for gives
\* exactly one detections event with the engine's whole list, whether the
\* codes were new, repeated or absent; nothing else emits the event.
C11_OneDetectionsEvent == [][C11_Step]_vars
C11_Witness ==
    /\ h_proc.decoded = None
    /\ Len(h_proc.batch) > 0
    /\ h_proc.detections = h_proc.batch
    /\ detection_emits >= 2

C12_RaiseStep ==
    \A w \in Workers :
        (C11_ImageDone(w) /\ h_proc'.raised) =>
            /\ wpc'[w] \in {"loop", "get", "detect"}
            /\ error_emits' = error_emits
C12_Pending == h_proc.raised /\ Len(recognition_queue) > 0 /\ recognition_running
C12_Dequeued == \E w \in Workers : wpc[w] = "detect"

\* C12: an exception while the worker processes an image leaves the worker
\* alive and publishes no error event, and an image queued afterwards is
\* still dequeued while the stop flag is not set.
C12_WorkerSurvivesException ==
    /\ [][C12_RaiseStep]_vars
    /\ C12_Pending ~> C12_Dequeued
C12_Witness ==
    /\ h_proc.raised
    /\ C12_Dequeued
    /\ error_emits = 0

\* C13: a stop() called at any time after start(), also before run() has
\* set its running flag, leads to Stopped.
C13_StopLeadsToStopped == h_run.stopRequested ~> Stopped

\* C15: a pipeline instance that has reached Stopped stays Stopped.
C15_StoppedIsTerminal == [][Stopped => Stopped']_vars

C16_FailedStart == h_run.exit \in {"attach", "start"}
C16_Surfaced ==
    /\ h_run.errors = 1
    /\ ~h_run.started
    /\ ~Running
    /\ Stopped => (h_run.cleanup /\ ~recognition_running)

C14_NoThreadKill == tpc # "terminated"

\* C18: after construction from any file and after any add_code calls the
\* cache holds max_cache_size entries at most.
C18_CacheBounded == Len(codes_cache) <= max_cache_size
C18_Witness ==
    /\ h_fresh
    /\ storage_file.kind = "json"
    /\ FileSizeMb(storage_file) <= max_file_size_mb
    /\ Len(storage_file.codes) > max_cache_size
    /\ Len(codes_cache) = max_cache_size

\* an add_code step removes only the entry with the earliest timestamp
\* among those stored, and only from a full cache
C19_Step ==
    ~h_fresh' =>
        \A i \in 1..Len(codes_cache) :
            codes_cache[i].info \notin KeySet(codes_cache') =>
                /\ Len(codes_cache) >= max_cache_size
                /\ \A j \in 1..Len(codes_cache) :
                        codes_cache[i].timestamp <= codes_cache[j].timestamp

\* C19: an entry leaves the store only when add_code evicts it from a full
\* cache, and it is then the entry first seen earliest, also when the cache
\* was loaded from a file.
C19_EvictsOldest == [][C19_Step]_vars

\* C20: after an add_code that returned True and whose write succeeded, the
\* codes of the file are the values of the cache in its order.
C20_WriteThrough ==
    (h_calls # <<>> /\ h_calls[Len(h_calls)].ret /\ h_calls[Len(h_calls)].wr = "ok") =>
        storage_file = JsonFile(codes_cache)
C20_Witness ==
    /\ Len(h_calls) = 2
    /\ h_calls[1].ret
    /\ h_calls[2].ret /\ h_calls[2].wr = "ok"
    /\ Len(codes_cache) = max_cache_size
    /\ h_calls[1].text \notin KeySet(codes_cache)
    /\ storage_file = JsonFile(codes_cache)

\* the callers inside a with self.lock block
C17_Inside == {c \in Callers : callers[c].pc # "idle"}

\* C17: with any interleaving of callers, the add_code calls with one text
\* return True exactly once, the cache holds one entry per text, and at most
\* one caller is between taking and releasing the lock, so that the update
\* and the write of an add_code are not interleaved with another call.
C17_AddIsAtomic ==
    /\ Cardinality(C17_Inside) <= 1
    /\ \A c \in C17_Inside : lock = c
    /\ Distinct(Keys(codes_cache))
    /\ \A t \in StoreTexts :
        /\ h_rets[t].trues <= 1
        /\ h_rets[t].done > 0 => (h_rets[t].trues = 1 /\ t \in KeySet(codes_cache))
C17_Witness ==
    /\ \E t \in StoreTexts : h_rets[t].done >= 2 /\ h_rets[t].trues = 1
    /\ Len(codes_cache) >= 2
    /\ C17_Inside # {}

C21_FailedWrite(i) == i \in 1..Len(h_calls) /\ h_calls[i].wr \in {"open_failed", "write_failed"}

C22_RoundTripStep ==
    (~h_fresh /\ h_fresh'
     /\ storage_file = JsonFile(codes_cache)
     /\ FileSizeMb(storage_file) <= max_file_size_mb) =>
        codes_cache' = codes_cache

\* C22: a store constructed on a file that was written from a cache and is
\* under the size threshold holds the same entries in the same order, and
\* add_code of a text it holds returns False.
C22_RoundTrip ==
    /\ [][C22_RoundTripStep]_vars
    /\ [](\A i \in 1..Len(h_calls) : h_calls[i].had => ~h_calls[i].ret)
C22_Witness ==
    /\ h_fresh
    /\ Len(codes_cache) = 2
    /\ \E i \in 1..Len(codes_cache) : codes_cache[i].timestamp > StartOfSession
    /\ storage_file = JsonFile(codes_cache)
    /\ FileSizeMb(storage_file) <= max_file_size_mb

\* an add_code step with a text that is stored
C30_Step ==
    (~h_fresh' /\ h_calls' # <<>> /\ h_calls'[Len(h_calls')].had) =>
        /\ ~h_calls'[Len(h_calls')].ret
        /\ codes_cache' = codes_cache
        /\ storage_file' = storage_file

\* C30: add_code of a stored text returns False and leaves the cache, its
\* order and the file as they were, whatever kind is passed.
C30_StoredEntryNeverMutated == [][C30_Step]_vars
C30_Witness ==
    /\ h_calls # <<>>
    /\ h_calls[Len(h_calls)].had
    /\ ~h_calls[Len(h_calls)].ret
    /\ \E i \in 1..Len(codes_cache) :
        /\ codes_cache[i].info = h_calls[Len(h_calls)].text
        /\ codes_cache[i].type # h_calls[Len(h_calls)].code_type

\* the queue changes by a get of its oldest image or by a put behind its
\* newest, and a put that finds it full leaves it as it was
C23_QueueStep ==
    /\ recognition_queue' # recognition_queue =>
        \/ /\ Len(recognition_queue) > 0
           /\ recognition_queue' = Tail(recognition_queue)
           /\ \E w \in Workers : /\ wpc[w] = "get" /\ wpc'[w] = "detect"
                                 /\ wimg'[w] = Head(recognition_queue)
        \/ /\ Len(recognition_queue) < QueueMaxSize
           /\ recognition_queue' = Append(recognition_queue, frame_count')
    /\ (frame_count' # frame_count /\ h_frame'.enq = "full") =>
        /\ Len(recognition_queue) = QueueMaxSize
        /\ recognition_queue' = recognition_queue
\* the queued images are in the order they were put, and an image a worker
\* took was put before every image still queued
C23_QueueOrdered ==
    /\ \A i, j \in 1..Len(recognition_queue) :
        i < j => recognition_queue[i] < recognition_queue[j]
    /\ \A w \in Workers : \A i \in 1..Len(recognition_queue) :
        wimg[w] < recognition_queue[i]

\* C23: the recognition worker takes the images in the order their puts
\* succeeded, and a put rejected by the full queue leaves the queued images
\* and their order unchanged.
C23_StrictFifo == [][C23_QueueStep]_vars /\ []C23_QueueOrdered
C23_Witness ==
    /\ h_frame.enq = "full"
    /\ Len(recognition_queue) = 1
    /\ \E w \in Workers : /\ wimg[w] # 0
                          /\ wimg[w] < Head(recognition_queue)

C25_NoReadAfterRelease ==
    (h_frame.handed /\ h_frame.released > 0
     /\ (h_frame.displayed \/ h_frame.enq # "none")) =>
        h_frame.buffer # "device"

\* C26: in Stopped no recognition worker is alive and the device delivers
\* no frames.
C26_StoppedIsQuiet ==
    Stopped => /\ \A w \in Workers : ~Alive(w)
               /\ ~grabbing

\* a callback on a frame that fails normalisation
C27_FailedFrameStep ==
    (h_frame'.handed /\ h_frame'.bad /\ <<h_frame, h_failRun>>' # <<h_frame, h_failRun>>) =>
        /\ error_emits' = error_emits
        /\ <<tpc, running, recognition_running, wpc, grabbing, attached>>'
               = <<tpc, running, recognition_running, wpc, grabbing, attached>>
\* a frame normalised after frames that failed is displayed
C27_LaterFramesHandled ==
    (h_frame.handed /\ h_frame.ok /\ h_frame.failsBefore > 0) => h_frame.displayed

\* C27: a frame that fails normalisation publishes no error event and
\* leaves the pipeline where it is, and the frames after it are handled.
C27_FrameErrorsStayLocal == [][C27_FailedFrameStep]_vars /\ []C27_LaterFramesHandled
C27_Witness ==
    /\ Running
    /\ error_emits = 0
    /\ h_frame.handed /\ h_frame.ok /\ h_frame.displayed
    /\ h_frame.failsBefore \in 1..4
    /\ h_frame.enq = "queued"

\* C28: no frame is handled while the cleanup joins the recognition worker
\* or after the join, before the device is told to stop.
C28_NoFrameOnceJoining ==
    [][frame_count' # frame_count => tpc \notin {"join", "stop_grabbing"}]_vars

\* a callback on a frame that fails normalisation advances no counter
C29_FailedFrameStep ==
    (h_frame'.handed /\ ~h_frame'.ok /\ <<h_frame, h_failRun>>' # <<h_frame, h_failRun>>) =>
        <<frame_count, display_count, fps_frame_count>>'
            = <<frame_count, display_count, fps_frame_count>>
\* the last frame was put, or found the queue full, exactly if it is
\* normalised and its number among the normalised frames is a multiple of
\* recognition_interval
C29_PutOnBoundary ==
    h_frame.handed =>
        (h_frame.enq # "none" <=> (h_frame.ok /\ frame_count % recognition_interval = 0))

\* C29: a put into the recognition queue is attempted exactly for the
\* normalised frames whose number is a multiple of recognition_interval,
\* and a frame that fails normalisation advances no counter.
C29_RecognitionDecimation == [][C29_FailedFrameStep]_vars /\ []C29_PutOnBoundary
C29_Witness ==
    /\ h_frame.handed /\ h_frame.ok
    /\ h_frame.failsBefore = 5
    /\ h_frame.enq # "none"
    /\ frame_count = 2 * recognition_interval
    /\ display_count = frame_count

\* a worker ends only when signalled, and a signalled worker that tests
\* its flag does not go on to another dequeue
C31_WorkerStep ==
    \A w \in Workers :
        /\ (wpc[w] # "dead" /\ wpc'[w] = "dead") => w \in h_signalled
        /\ (w \in h_signalled /\ wpc[w] = "loop") => wpc'[w] # "get"

\* C31: the recognition worker leaves its loop only after it was signalled
\* to stop, and once signalled it starts no further dequeue: it ends after
\* the dequeue wait or the image it is busy with.
C31_SignalledWorkerExits == [][C31_WorkerStep]_vars

\* C32: the recognition queue never holds more than QueueMaxSize images.
C32_QueueBounded == Len(recognition_queue) <= QueueMaxSize
C32_Witness ==
    /\ Len(recognition_queue) = QueueMaxSize
    /\ h_frame.enq = "full"
    /\ frame_count = 3 * recognition_interval
    /\ \E w \in Workers : Alive(w)

\* C33: at most one recognition worker thread of the instance is alive.
C33_OneWorkerAlive == Cardinality({w \in Workers : Alive(w)}) <= 1

\* C34: in Stopped the recognition queue is empty, so that no image of one
\* run is left for the worker of a later run.
C34_StoppedQueueEmpty == Stopped => recognition_queue = <<>>

\* C35: after pause_grabbing and resume_grabbing, is_grabbing is true only
\* if the pipeline thread is running or was started.
C35_FlagAgrees == (apc = "resumed" /\ is_grabbing) => ~Stopped

\* one iteration of a worker that did not raise
C36_Step ==
    \A w \in Workers :
        (wpc[w] = "detect" /\ wpc'[w] = "loop" /\ ~h_proc'.raised) =>
            LET texts == h_proc'.batch
                combined_text == Join(texts, <<",", " ">>)
            IN  IF texts = <<>>
                THEN /\ h_proc'.decoded = None
                     /\ h_proc'.detections = <<>>
                     /\ last_result' = last_result
                     /\ h_proc'.added = <<>>
                     /\ result_emits' = result_emits
                ELSE /\ last_result' = combined_text
                     /\ h_proc'.detections = texts
                     /\ detection_emits' = detection_emits + 1
                     /\ IF combined_text # last_result
                        THEN /\ h_proc'.decoded = combined_text
                             /\ h_proc'.added # <<>>
                        ELSE /\ h_proc'.decoded = None
                             /\ h_proc'.added = <<>>
                             /\ result_emits' = result_emits
                             /\ <<codes_cache, storage_file>>' = <<codes_cache, storage_file>>

\* C36: detect_codes_with_positions returns the combined text only when it
\* differs from the combined text of the last call that decoded something,
\* no text with all detections when it is equal, and no text with no
\* detections when nothing is decoded; a repeated image leads to no
\* add_code and no result event, and to a detections event.
C36_RepeatedTextSuppressed == [][C36_Step]_vars
C36_Witness ==
    /\ h_proc.batch # <<>>
    /\ h_proc.decoded = None
    /\ h_proc.detections = h_proc.batch
    /\ last_result = Join(h_proc.batch, <<",", " ">>)
    /\ detection_emits >= 2
    /\ result_emits = 1

====
